---- MODULE Spec2Model ----
(***************************************************************************)
(* Connection-state store of web3-react (createWeb3ReactStoreAndActions),   *)
(* the EIP1193 and BscWallet connectors that drive it, and the hooks that  *)
(* read it.                                                                *)
(*                                                                         *)
(* A JavaScript value that may be undefined is a tagged record:            *)
(*   Undefined, or Some(v).  A patch property that is not an own property  *)
(*   of the patch object is Absent.                                        *)
(* A JavaScript number is [neg, hi, lo, frac]: the magnitude is            *)
(*   hi * 10^8 + lo (+ 1/2 when frac), so that MAX_SAFE_CHAIN_ID keeps its *)
(*   real value.                                                           *)
(* An address string is [hex, form]: which 20 bytes it spells and how it   *)
(*   is written.                                                           *)
(***************************************************************************)
EXTENDS Integers, Sequences, FiniteSets, TLC

VARIABLES state, nullifier, attempts, last,
          initializedConnectors, BinanceChain, provider,
          DynamicProvider, importing

\* what lies outside a connector's store and its actions: the connectors
\* given to getSelectedConnector, window.BinanceChain and the BscWallet's
\* provider, the module variable DynamicProvider and the importProvider
\* calls in progress
outside == <<initializedConnectors, BinanceChain, provider, DynamicProvider, importing>>

vars == <<state, nullifier, attempts, last, outside>>

----------------------------------------------------------------------------
(* Bounds of the model *)

MaxNullifier == 4

MaxAttempts == 2

\* connectors given to getSelectedConnector
MaxConnectors == 2

\* components using useProvider that are followed
MaxComponents == 2

----------------------------------------------------------------------------
(* JavaScript values *)

Undefined == [tag |-> "undefined"]

Absent == [tag |-> "absent"]

Some(v) == [tag |-> "value", v |-> v]

\* x !== undefined, for a property read (an absent property reads undefined)
IsDefined(x) == x.tag = "value"

Num(hi, lo) == [neg |-> FALSE, hi |-> hi, lo |-> lo, frac |-> FALSE]

Neg(hi, lo) == [neg |-> TRUE, hi |-> hi, lo |-> lo, frac |-> FALSE]

Half(hi, lo) == [neg |-> FALSE, hi |-> hi, lo |-> lo, frac |-> TRUE]

IsZero(n) == n.hi = 0 /\ n.lo = 0 /\ ~n.frac

\* a > b for numbers
NumGreater(a, b) ==
    IF a.neg # b.neg THEN b.neg /\ ~(IsZero(a) /\ IsZero(b))
    ELSE LET magGreater(p, q) ==
                 \/ p.hi > q.hi
                 \/ p.hi = q.hi /\ p.lo > q.lo
                 \/ p.hi = q.hi /\ p.lo = q.lo /\ p.frac /\ ~q.frac
         IN IF a.neg THEN magGreater(b, a) ELSE magGreater(a, b)

\* Number.isInteger
IsInteger(n) == ~n.frac

\* truthiness of a number or undefined: 0 and undefined are falsy
TruthyNumber(x) == IsDefined(x) /\ ~IsZero(x.v)

\* truthiness of an array or undefined: every array, also the empty one, is truthy
TruthyArray(x) == IsDefined(x)

----------------------------------------------------------------------------
(* Validation *)

MAX_SAFE_CHAIN_ID == Num(45035996, 27370476)

\* validateChainId with chainId < 0 for chainId <= 0
validateChainIdAllowsZero(chainId) ==
    ~(\/ ~IsInteger(chainId)
      \/ chainId.neg /\ ~IsZero(chainId)
      \/ NumGreater(chainId, MAX_SAFE_CHAIN_ID))

\* validateChainId with chainId >= MAX_SAFE_CHAIN_ID for chainId > MAX_SAFE_CHAIN_ID
validateChainIdExclusive(chainId) ==
    ~(\/ ~IsInteger(chainId)
      \/ ~NumGreater(chainId, Num(0, 0))
      \/ ~NumGreater(MAX_SAFE_CHAIN_ID, chainId))

\* TRUE when validateChainId returns, FALSE when it throws
validateChainId(chainId) ==
    ~(\/ ~IsInteger(chainId)
      \/ ~NumGreater(chainId, Num(0, 0))
      \/ NumGreater(chainId, MAX_SAFE_CHAIN_ID))

\* the ways an address string can be written
AddressForms == {"lower", "upper", "checksum", "badchecksum", "malformed"}

Address(hex, form) == [hex |-> hex, form |-> form]

\* getAddress returns for 40 hex digits in one case or with the right
\* mixed-case checksum, and throws otherwise
IsAddress(account) == account.form \in {"lower", "upper", "checksum"}

\* the value validateAccount returns when it does not throw
validateAccount(account) == Address(account.hex, "checksum")

----------------------------------------------------------------------------
(* The store *)

DEFAULT_STATE ==
    [chainId |-> Undefined,
     accounts |-> Undefined,
     accountIndex |-> Undefined,
     activating |-> FALSE,
     addingChain |-> Undefined,
     switchingChain |-> Undefined,
     watchingAsset |-> Undefined]

\* ++nullifier, nullifier++
increment(n) == n + 1

\* nullifierCached = nullifier++
cacheNullifierPostIncrement(n) == n

\* nullifierCached = ++nullifier, for the counter's value n before the call
cacheNullifier(n) == increment(n)

\* store.setState(partial): the properties of partial replace those of the state
setState(existingState, partial) ==
    [name \in DOMAIN existingState |->
        IF name \in DOMAIN partial THEN partial[name] ELSE existingState[name]]

\* startActivation with store.setState({ activating: true })
startActivationStateMerged(existingState) ==
    setState(existingState, [activating |-> TRUE])

\* the state startActivation sets
startActivationState(existingState) ==
    setState(existingState, [DEFAULT_STATE EXCEPT !.activating = TRUE])

\* the closure without its nullifier test
cancelActivationStateUnguarded(existingState, nullifierNow, nullifierCached) ==
    setState(existingState, [activating |-> FALSE,
                             addingChain |-> Undefined,
                             switchingChain |-> Undefined])

\* the closure with its nullifier test negated
cancelActivationStateInverted(existingState, nullifierNow, nullifierCached) ==
    IF nullifierNow # nullifierCached
    THEN setState(existingState, [activating |-> FALSE,
                                  addingChain |-> Undefined,
                                  switchingChain |-> Undefined])
    ELSE existingState

\* the closure startActivation returns, applied to the store's state
cancelActivationState(existingState, nullifierNow, nullifierCached) ==
    IF nullifierNow = nullifierCached
    THEN setState(existingState, [activating |-> FALSE,
                                  addingChain |-> Undefined,
                                  switchingChain |-> Undefined])
    ELSE existingState

\* the closure counting itself as an update
cancelActivationNullifierIncremented(n) == increment(n)

\* the counter the closure leaves: it reads nullifier and never writes it
cancelActivationNullifier(n) == n

\* update throws before it writes anything
updateThrows(stateUpdate, skipValidation) ==
    \/ /\ IsDefined(stateUpdate.chainId)
       /\ ~skipValidation
       /\ ~validateChainId(stateUpdate.chainId.v)
    \/ /\ IsDefined(stateUpdate.accounts)
       /\ ~skipValidation
       /\ \E i \in 1..Len(stateUpdate.accounts.v) : ~IsAddress(stateUpdate.accounts.v[i])

\* the validation loop without the assignment to stateUpdate.accounts[i]
validatedNotRewritten(stateUpdate, skipValidation) == stateUpdate

\* the validation loop run whatever skipValidation is
validatedAlways(stateUpdate, skipValidation) ==
    IF IsDefined(stateUpdate.accounts)
    THEN [stateUpdate EXCEPT !.accounts =
              Some([i \in 1..Len(stateUpdate.accounts.v) |->
                        validateAccount(stateUpdate.accounts.v[i])])]
    ELSE stateUpdate

\* stateUpdate after the validation loop has rewritten its accounts
validated(stateUpdate, skipValidation) ==
    IF IsDefined(stateUpdate.accounts) /\ ~skipValidation
    THEN [stateUpdate EXCEPT !.accounts =
              Some([i \in 1..Len(stateUpdate.accounts.v) |->
                        validateAccount(stateUpdate.accounts.v[i])])]
    ELSE stateUpdate

\* update writing a valid chainId before it validates the accounts
thrownStateChainIdWritten(existingState, stateUpdate) ==
    IF IsDefined(stateUpdate.chainId) /\ validateChainId(stateUpdate.chainId.v)
    THEN setState(existingState, [chainId |-> Some(stateUpdate.chainId.v)])
    ELSE existingState

\* nullifier++ placed before the validation
thrownNullifierIncremented(n) == increment(n)

\* the counter update leaves when it throws: the validations come before
\* nullifier++
thrownNullifier(n) == n

\* the state update leaves when it throws: both validations come before
\* nullifier++ and store.setState
thrownState(existingState, stateUpdate) == existingState

\* a where the code has a ?? b
coalesceDropped(a, b) == IF IsDefined(a) THEN Some(a.v) ELSE Undefined

\* a ?? b
coalesce(a, b) == IF IsDefined(a) THEN Some(a.v) ELSE b

\* the flag cleared as soon as chainId is set, accounts or not
nextActivatingChainIdOnly(activating, chainId, accounts) ==
    IF activating /\ TruthyNumber(chainId)
    THEN FALSE
    ELSE activating

\* the flag recomputed from chainId and accounts alone
nextActivatingIgnoringExisting(activating, chainId, accounts) ==
    ~(TruthyNumber(chainId) /\ TruthyArray(accounts))

\* the activating flag of the next state
nextActivating(activating, chainId, accounts) ==
    IF activating /\ TruthyNumber(chainId) /\ TruthyArray(accounts)
    THEN FALSE
    ELSE activating

\* stateUpdate[name] ?? existing
ownOrExistingCoalesced(patchValue, existing) ==
    IF IsDefined(patchValue) THEN Some(patchValue.v) ELSE existing

\* Object.getOwnPropertyNames(stateUpdate).includes(name) ? stateUpdate[name] : existing
ownOrExisting(patchValue, existing) ==
    IF patchValue.tag = "absent" THEN existing
    ELSE IF IsDefined(patchValue) THEN Some(patchValue.v) ELSE Undefined

\* the updater adding the patch's accounts to the existing ones
updateStateAppending(existingState, stateUpdate) ==
    LET chainId == coalesce(stateUpdate.chainId, existingState.chainId)
        accounts == IF IsDefined(stateUpdate.accounts) /\ IsDefined(existingState.accounts)
                    THEN Some(existingState.accounts.v \o stateUpdate.accounts.v)
                    ELSE coalesce(stateUpdate.accounts, existingState.accounts)
    IN [chainId |-> chainId,
        accountIndex |-> ownOrExisting(stateUpdate.accountIndex, existingState.accountIndex),
        accounts |-> accounts,
        activating |-> nextActivating(existingState.activating, chainId, accounts),
        addingChain |-> ownOrExisting(stateUpdate.addingChain, existingState.addingChain),
        switchingChain |-> ownOrExisting(stateUpdate.switchingChain, existingState.switchingChain),
        watchingAsset |-> ownOrExisting(stateUpdate.watchingAsset, existingState.watchingAsset)]

\* the updater clearing activating only when the patch itself has both
updateStateActivatingFromPatch(existingState, stateUpdate) ==
    LET chainId == coalesce(stateUpdate.chainId, existingState.chainId)
        accounts == coalesce(stateUpdate.accounts, existingState.accounts)
    IN [chainId |-> chainId,
        accountIndex |-> ownOrExisting(stateUpdate.accountIndex, existingState.accountIndex),
        accounts |-> accounts,
        activating |-> nextActivating(existingState.activating,
                                      coalesce(stateUpdate.chainId, Undefined),
                                      coalesce(stateUpdate.accounts, Undefined)),
        addingChain |-> ownOrExisting(stateUpdate.addingChain, existingState.addingChain),
        switchingChain |-> ownOrExisting(stateUpdate.switchingChain, existingState.switchingChain),
        watchingAsset |-> ownOrExisting(stateUpdate.watchingAsset, existingState.watchingAsset)]

\* the updater update passes to store.setState
updateState(existingState, stateUpdate) ==
    LET chainId == coalesce(stateUpdate.chainId, existingState.chainId)
        accounts == coalesce(stateUpdate.accounts, existingState.accounts)
    IN [chainId |-> chainId,
        accountIndex |-> ownOrExisting(stateUpdate.accountIndex, existingState.accountIndex),
        accounts |-> accounts,
        activating |-> nextActivating(existingState.activating, chainId, accounts),
        addingChain |-> ownOrExisting(stateUpdate.addingChain, existingState.addingChain),
        switchingChain |-> ownOrExisting(stateUpdate.switchingChain, existingState.switchingChain),
        watchingAsset |-> ownOrExisting(stateUpdate.watchingAsset, existingState.watchingAsset)]

\* resetState clearing the connection only
resetStateStateConnectionOnly(existingState) ==
    setState(existingState, [chainId |-> Undefined, accounts |-> Undefined])

\* the state resetState sets
resetStateState(existingState) == setState(existingState, DEFAULT_STATE)

----------------------------------------------------------------------------
(* Inputs *)

ChainIdInputs ==
    {Num(0, 0), Num(0, 1), MAX_SAFE_CHAIN_ID, Num(45035996, 27370477)}

AccountsInputs ==
    {<<>>,
     <<Address("a", "lower")>>,
     <<Address("a", "checksum"), Address("b", "upper")>>,
     <<Address("a", "checksum"), Address("b", "badchecksum")>>}

OptionalNames == {"accountIndex", "addingChain", "switchingChain", "watchingAsset"}

\* the value a caller gives each of the optional properties when it sets it
OptionalInput ==
    [accountIndex |-> Some(Num(0, 0)),
     addingChain |-> Some("adding"),
     switchingChain |-> Some("switching"),
     watchingAsset |-> Some("watching")]

EmptyUpdate ==
    [chainId |-> Absent, accounts |-> Absent, accountIndex |-> Absent,
     addingChain |-> Absent, switchingChain |-> Absent, watchingAsset |-> Absent]

\* patches of chainId and accounts only
ConnectionUpdates ==
    {[EmptyUpdate EXCEPT !.chainId = c, !.accounts = a] :
        c \in {Absent} \cup {Some(n) : n \in ChainIdInputs},
        a \in {Absent} \cup {Some(l) : l \in AccountsInputs}}

\* patches that name one optional property, with a value or with undefined
OptionalUpdates ==
    {[EmptyUpdate EXCEPT ![f] = OptionalInput[f]] : f \in OptionalNames}
    \cup {[EmptyUpdate EXCEPT ![f] = Undefined] : f \in OptionalNames}

\* patches that name every property
FullUpdates ==
    {[chainId |-> c, accounts |-> a,
      accountIndex |-> OptionalInput.accountIndex,
      addingChain |-> OptionalInput.addingChain,
      switchingChain |-> OptionalInput.switchingChain,
      watchingAsset |-> OptionalInput.watchingAsset] :
        c \in {Absent, Some(Num(0, 1)), Some(Num(0, 0))},
        a \in {Absent, Some(<<Address("a", "checksum"), Address("b", "badchecksum")>>)}}

StateUpdates == ConnectionUpdates \cup OptionalUpdates \cup FullUpdates

----------------------------------------------------------------------------
(* Bookkeeping: the cancel functions handed out, and the last call made *)

\* record on every outstanding attempt that operation op has run since it began
mark(as, op) == [i \in DOMAIN as |-> [as[i] EXCEPT !.since = @ \cup {op}]]

\* at most MaxAttempts attempts are followed: the oldest one is forgotten
\* when it is a cancel function its holder may drop or a settled request
hasRoom(as) ==
    IF Len(as) < MaxAttempts THEN TRUE
    ELSE as[1].kind = "held" \/ as[1].phase = "settled"

room(as) == IF Len(as) < MaxAttempts THEN as ELSE Tail(as)

\* the call just made: which one, on which attempt, whether it threw,
\* whether validation was skipped, and the state and the counter it found
Call(op, idx, threw, skip) ==
    [op |-> op, idx |-> idx, threw |-> threw, skip |-> skip, pre |-> state,
     nullifier |-> nullifier]

\* a call together with the value it returned
Returning(call, value) ==
    [op |-> call.op, idx |-> call.idx, threw |-> call.threw, skip |-> call.skip,
     pre |-> call.pre, nullifier |-> call.nullifier, returned |-> value]

\* a call of a cancel function, with whether the call before it was a call
\* of the same function
Cancelling(call, value, again) ==
    [op |-> call.op, idx |-> call.idx, threw |-> call.threw, skip |-> call.skip,
     pre |-> call.pre, nullifier |-> call.nullifier, returned |-> value,
     again |-> again]

\* the cancel function's return store.getState(), for the state the function
\* found and the state the store holds when it returns
cancelActivationReturn(existingState, storeState) == storeState

\* update returning the state it read before store.setState
updateReturnStale(existingState, storeState) == existingState

\* update's return store.getState()
updateReturn(existingState, storeState) == storeState

\* resetState's return DEFAULT_STATE
resetStateReturn(existingState, storeState) == DEFAULT_STATE

\* getState's return store.getState()
getStateReturn(storeState) == storeState

----------------------------------------------------------------------------
(* The actions of createWeb3ReactStoreAndActions *)

\* nothing outside the store is set up: no connectors selected, no
\* BinanceChain wallet, DynamicProvider not yet imported
InitOutside ==
    /\ initializedConnectors = <<>>
    /\ BinanceChain = FALSE
    /\ provider = Undefined
    /\ DynamicProvider = Undefined
    /\ importing = <<>>

Init ==
    /\ InitOutside
    /\ state = DEFAULT_STATE
    /\ nullifier = 0
    /\ attempts = <<>>
    /\ last = [op |-> "init", idx |-> 0, threw |-> FALSE, skip |-> FALSE,
               pre |-> DEFAULT_STATE, nullifier |-> 0]

\* startActivation's effect on the store and the counter
beginActivation(kind) ==
    /\ nullifier < MaxNullifier
    /\ hasRoom(attempts)
    /\ nullifier' = increment(nullifier)
    /\ state' = startActivationState(state)
    /\ attempts' = Append(mark(room(attempts), "startActivation"),
                          [cached |-> cacheNullifier(nullifier), since |-> {},
                           kind |-> kind, phase |-> "pending"])

startActivation ==
    /\ beginActivation("held")
    /\ UNCHANGED outside
    /\ last' = Call("startActivation", Len(attempts'), FALSE, FALSE)

\* the cancel function of attempt i
cancelActivation(i) ==
    /\ state' = cancelActivationState(state, nullifier, attempts[i].cached)
    /\ nullifier' = cancelActivationNullifier(nullifier)

\* update's effect on the store and the counter, when it does not throw
applyUpdate(stateUpdate, skipValidation) ==
    /\ nullifier < MaxNullifier
    /\ nullifier' = increment(nullifier)
    /\ state' = updateState(state, validated(stateUpdate, skipValidation))

update(stateUpdate, skipValidation) ==
    IF updateThrows(stateUpdate, skipValidation)
    THEN /\ state' = thrownState(state, stateUpdate)
         /\ nullifier' = thrownNullifier(nullifier)
         /\ UNCHANGED attempts
         /\ UNCHANGED outside
         /\ last' = Call("update", 0, TRUE, skipValidation)
    ELSE /\ applyUpdate(stateUpdate, skipValidation)
         /\ attempts' = mark(attempts, "update")
         /\ UNCHANGED outside
         /\ last' = Returning(Call("update", 0, FALSE, skipValidation),
                               updateReturn(state, state'))

resetState ==
    /\ nullifier < MaxNullifier
    /\ nullifier' = increment(nullifier)
    /\ state' = resetStateState(state)
    /\ attempts' = mark(attempts, "resetState")
    /\ UNCHANGED outside
    /\ last' = Returning(Call("resetState", 0, FALSE, FALSE),
                          resetStateReturn(state, state'))

getState ==
    /\ UNCHANGED <<state, nullifier, attempts>>
    /\ UNCHANGED outside
    /\ last' = Returning(Call("getState", 0, FALSE, FALSE), getStateReturn(state))

cancel(i) ==
    /\ attempts[i].kind = "held"
    /\ cancelActivation(i)
    /\ UNCHANGED attempts
    /\ UNCHANGED outside
    /\ last' = Cancelling(Call("cancel", i, FALSE, FALSE),
                           cancelActivationReturn(state, state'),
                           last.op = "cancel" /\ last.idx = i)

Next ==
    \/ startActivation
    \/ \E stateUpdate \in StateUpdates, skipValidation \in BOOLEAN :
           update(stateUpdate, skipValidation)
    \/ resetState
    \/ getState
    \/ \E i \in DOMAIN attempts : cancel(i)

Spec == Init /\ [][Next]_vars

----------------------------------------------------------------------------
(* Properties of the store, checked under Spec *)

\* the last call was the cancel function of an attempt
Cancelled == last.op = "cancel" /\ last.idx \in DOMAIN attempts

\* a startActivation, a successful update or a resetState has run since
\* the attempt whose cancel function was just invoked began
CancelledStale == Cancelled /\ attempts[last.idx].since # {}

CancelledFresh == Cancelled /\ attempts[last.idx].since = {}

\* the last call was an update that returned
Updated == last.op = "update" /\ ~last.threw

NonEmpty(accounts) == IsDefined(accounts) /\ Len(accounts.v) > 0

\* C1: a cancel function invoked after a later startActivation, successful
\* update or resetState changes no field of the state.
C1_StaleCancelIsNoOp == CancelledStale => state = last.pre

C1_Witness == CancelledStale /\ last.pre.activating /\ state.activating

\* C2: a cancel function invoked with no startActivation, successful update
\* or resetState since its attempt began sets activating to false and
\* addingChain and switchingChain to undefined, and keeps chainId, accounts,
\* accountIndex and watchingAsset.
C2_FreshCancelTakesEffect ==
    CancelledFresh =>
        /\ state.activating = FALSE
        /\ state.addingChain = Undefined
        /\ state.switchingChain = Undefined
        /\ state.chainId = last.pre.chainId
        /\ state.accounts = last.pre.accounts
        /\ state.accountIndex = last.pre.accountIndex
        /\ state.watchingAsset = last.pre.watchingAsset

C2_Witness == CancelledFresh /\ last.pre.activating /\ ~state.activating

\* C3: after startActivation, whatever the state was, activating is true and
\* every other field is undefined.
C3_StartActivationResets ==
    last.op = "startActivation" =>
        /\ state.activating = TRUE
        /\ state.chainId = Undefined
        /\ state.accounts = Undefined
        /\ state.accountIndex = Undefined
        /\ state.addingChain = Undefined
        /\ state.switchingChain = Undefined
        /\ state.watchingAsset = Undefined

C3_Witness ==
    /\ last.op = "startActivation"
    /\ IsDefined(last.pre.chainId)
    /\ IsDefined(last.pre.accounts)
    /\ IsDefined(last.pre.accountIndex)
    /\ IsDefined(last.pre.addingChain)
    /\ IsDefined(last.pre.switchingChain)
    /\ IsDefined(last.pre.watchingAsset)
    /\ ~last.pre.activating

\* C4: a validated update made while activating is true that leaves a defined
\* chainId and a non-empty accounts leaves activating false.
C4_ActivationAutoCompletes ==
    (/\ Updated
     /\ ~last.skip
     /\ last.pre.activating
     /\ IsDefined(state.chainId)
     /\ NonEmpty(state.accounts)) => ~state.activating

\* C5: activating is true only while chainId is undefined or accounts is
\* undefined or empty.
C5_ActivatingMeansIncomplete ==
    state.activating => ~IsDefined(state.chainId) \/ ~NonEmpty(state.accounts)

\* C6 as claimed: an update flips activating from true to false only if the
\* resulting accounts is non-empty.
C6_FlipNeedsNonEmptyAccounts ==
    (Updated /\ last.pre.activating /\ ~state.activating) => NonEmpty(state.accounts)

\* C6 as amended: an update flips activating from true to false only if the
\* resulting accounts is defined, empty or not: an update whose resulting
\* state has a defined chainId but an undefined accounts leaves activating
\* true.
C6_FlipNeedsDefinedAccounts ==
    /\ (Updated /\ last.pre.activating /\ ~state.activating) =>
           IsDefined(state.accounts)
    /\ (/\ Updated
        /\ last.pre.activating
        /\ IsDefined(state.chainId)
        /\ ~IsDefined(state.accounts)) => state.activating

C6_Witness ==
    /\ Updated
    /\ last.pre.activating
    /\ ~state.activating
    /\ state.accounts = Some(<<>>)

\* C7: activating goes from false to true only in startActivation.
C7_OnlyStartActivationSetsActivating ==
    (~last.pre.activating /\ state.activating) => last.op = "startActivation"

C7_Witness ==
    /\ Updated
    /\ ~last.pre.activating
    /\ ~state.activating
    /\ ~IsDefined(last.pre.chainId)
    /\ IsDefined(state.chainId)
    /\ ~IsDefined(state.accounts)

----------------------------------------------------------------------------
(* The EIP1193 connector *)

\* what the wallet answers to eth_chainId (after parseChainId) and sends
\* with connect and chainChanged
ProviderChainIds == {Num(0, 0), Num(0, 1), MAX_SAFE_CHAIN_ID}

\* what the wallet answers to eth_accounts and eth_requestAccounts and sends
\* with accountsChanged
ProviderAccounts ==
    {<<>>,
     <<Address("a", "lower")>>,
     <<Address("a", "checksum"), Address("b", "badchecksum")>>}

settle(as, i, phase) == [as EXCEPT ![i].phase = phase]

\* the error the promise chain of an attempt rejected with, which its catch
\* handler is given: each attempt has its own
chainError(attempt) == [attempt |-> attempt.cached]

\* the catch handler rethrowing without a call of cancelActivation
catchHandlerStateRethrowOnly(existingState, nullifierNow, nullifierCached) ==
    existingState

\* the state the catch handler leaves: cancelActivation() before throw error
catchHandlerState(existingState, nullifierNow, nullifierCached) ==
    cancelActivationState(existingState, nullifierNow, nullifierCached)

\* throw error in the catch handler: what the promise the attempt returned
\* rejects with, for the error the handler was given
rethrow(error) == error

\* a run of the catch handler, with the error the returned promise rejected
\* with and whether the step before it was the attempt's then handler
\* throwing
Catching(call, rejection, afterThrow) ==
    [op |-> call.op, idx |-> call.idx, threw |-> call.threw, skip |-> call.skip,
     pre |-> call.pre, nullifier |-> call.nullifier, rejection |-> rejection,
     afterThrow |-> afterThrow]

\* a listener's or handler's call of this.actions.update(stateUpdate)
actionsUpdate(stateUpdate) ==
    IF updateThrows(stateUpdate, FALSE)
    THEN state' = thrownState(state, stateUpdate) /\ nullifier' = thrownNullifier(nullifier)
    ELSE applyUpdate(stateUpdate, FALSE)

marked(stateUpdate) ==
    IF updateThrows(stateUpdate, FALSE) THEN attempts ELSE mark(attempts, "update")

activate ==
    /\ beginActivation("activate")
    /\ UNCHANGED outside
    /\ last' = Call("activate", Len(attempts'), FALSE, FALSE)

connectEagerly ==
    /\ beginActivation("connectEagerly")
    /\ UNCHANGED outside
    /\ last' = Call("connectEagerly", Len(attempts'), FALSE, FALSE)

\* eth_requestAccounts rejects and activate falls back to eth_accounts
requestAccountsRejected(i) ==
    /\ attempts[i].kind = "activate"
    /\ attempts[i].phase = "pending"
    /\ attempts' = settle(attempts, i, "fallback")
    /\ UNCHANGED outside
    /\ last' = Call("requestAccountsRejected", i, FALSE, FALSE)
    /\ UNCHANGED <<state, nullifier>>

\* Promise.all rejects: one of the requests of attempt i has failed
requestsRejected(i) ==
    /\ attempts[i].kind \in {"activate", "connectEagerly"}
    /\ attempts[i].phase \in {"pending", "fallback"}
    /\ attempts' = settle(attempts, i, "rejected")
    /\ UNCHANGED outside
    /\ last' = Call("requestsRejected", i, FALSE, FALSE)
    /\ UNCHANGED <<state, nullifier>>

\* the then handler of attempt i: both requests have answered
thenHandler(i, chainId, accounts) ==
    LET stateUpdate == [EmptyUpdate EXCEPT !.chainId = Some(chainId),
                                           !.accounts = Some(accounts)]
    IN /\ attempts[i].kind \in {"activate", "connectEagerly"}
       /\ attempts[i].phase \in {"pending", "fallback"}
       /\ actionsUpdate(stateUpdate)
       /\ attempts' = settle(marked(stateUpdate), i,
                             IF updateThrows(stateUpdate, FALSE)
                             THEN "rejected" ELSE "settled")
       /\ UNCHANGED outside
       /\ last' = Call("then", i, updateThrows(stateUpdate, FALSE), FALSE)

\* the catch handler of attempt i
catchHandler(i) ==
    /\ attempts[i].kind \in {"activate", "connectEagerly"}
    /\ attempts[i].phase = "rejected"
    /\ state' = catchHandlerState(state, nullifier, attempts[i].cached)
    /\ nullifier' = cancelActivationNullifier(nullifier)
    /\ attempts' = settle(attempts, i, "settled")
    /\ UNCHANGED outside
    /\ last' = Catching(Call("catch", i, TRUE, FALSE),
                         rethrow(chainError(attempts[i])),
                         last.op = "then" /\ last.idx = i /\ last.threw)

onConnect(chainId) ==
    LET stateUpdate == [EmptyUpdate EXCEPT !.chainId = Some(chainId)]
    IN /\ actionsUpdate(stateUpdate)
       /\ attempts' = marked(stateUpdate)
       /\ UNCHANGED outside
       /\ last' = Call("connect", 0, updateThrows(stateUpdate, FALSE), FALSE)

onDisconnect ==
    /\ nullifier < MaxNullifier
    /\ nullifier' = increment(nullifier)
    /\ state' = resetStateState(state)
    /\ attempts' = mark(attempts, "resetState")
    /\ UNCHANGED outside
    /\ last' = Call("disconnect", 0, FALSE, FALSE)

onChainChanged(chainId) ==
    LET stateUpdate == [EmptyUpdate EXCEPT !.chainId = Some(chainId)]
    IN /\ actionsUpdate(stateUpdate)
       /\ attempts' = marked(stateUpdate)
       /\ UNCHANGED outside
       /\ last' = Call("chainChanged", 0, updateThrows(stateUpdate, FALSE), FALSE)

onAccountsChanged(accounts) ==
    LET stateUpdate == [EmptyUpdate EXCEPT !.accounts = Some(accounts)]
    IN /\ actionsUpdate(stateUpdate)
       /\ attempts' = marked(stateUpdate)
       /\ UNCHANGED outside
       /\ last' = Call("accountsChanged", 0, updateThrows(stateUpdate, FALSE), FALSE)

NextEIP1193 ==
    \/ activate
    \/ connectEagerly
    \/ \E i \in DOMAIN attempts : requestAccountsRejected(i)
    \/ \E i \in DOMAIN attempts : requestsRejected(i)
    \/ \E i \in DOMAIN attempts, chainId \in ProviderChainIds,
          accounts \in ProviderAccounts : thenHandler(i, chainId, accounts)
    \/ \E i \in DOMAIN attempts : catchHandler(i)
    \/ \E chainId \in ProviderChainIds : onConnect(chainId)
    \/ onDisconnect
    \/ \E chainId \in ProviderChainIds : onChainChanged(chainId)
    \/ \E accounts \in ProviderAccounts : onAccountsChanged(accounts)

SpecEIP1193 == Init /\ [][NextEIP1193]_vars

----------------------------------------------------------------------------
(* Properties of the connector, checked under SpecEIP1193 *)

Outstanding(i) == attempts[i].phase # "settled"

\* the last step was the then or catch handler of an attempt
Handled == last.op \in {"then", "catch"} /\ last.idx \in DOMAIN attempts

Caught == last.op = "catch" /\ last.idx \in DOMAIN attempts

\* an attempt started after the one just handled is still outstanding
LaterOutstanding == \E j \in DOMAIN attempts : j > last.idx /\ Outstanding(j)

\* a startActivation or a resetState has run since the attempt just handled began
Superseded == attempts[last.idx].since \cap {"startActivation", "resetState"} # {}

C10_SettledMeansNotActivating ==
    (\A i \in DOMAIN attempts : ~Outstanding(i)) => ~state.activating

----------------------------------------------------------------------------
(* Validation and reset properties of the store, checked under Spec *)

\* undefined, or an integer from 1 to 4503599627370476
ChainIdInBounds(chainId) ==
    IsDefined(chainId) =>
        /\ ~chainId.v.neg
        /\ ~chainId.v.frac
        /\ chainId.v.hi > 0 \/ chainId.v.lo >= 1
        /\ \/ chainId.v.hi < 45035996
           \/ chainId.v.hi = 45035996 /\ chainId.v.lo <= 27370476

\* undefined, or a list of addresses each in checksummed form
AccountsChecksummed(accounts) ==
    IsDefined(accounts) =>
        \A i \in 1..Len(accounts.v) : accounts.v[i].form = "checksum"

\* the last call was an update with skipValidation set
SkippedValidation == last.op = "update" /\ last.skip

\* C11 as claimed: chainId is undefined or an integer from 1 to
\* 4503599627370476 in every reachable state, whatever skipValidation was.
C11_ChainIdAlwaysInBounds == ChainIdInBounds(state.chainId)

\* C11 as amended: startActivation, update with skipValidation false,
\* resetState and cancel each keep chainId undefined or an integer from 1 to
\* 4503599627370476, so that it is in every state reached by those calls
\* alone; an update with skipValidation true stores the chainId it is given.
C11_ValidatedCallsKeepChainIdInBounds ==
    (ChainIdInBounds(last.pre.chainId) /\ ~SkippedValidation) =>
        ChainIdInBounds(state.chainId)

C11_Witness ==
    /\ Updated
    /\ ~last.skip
    /\ ~IsDefined(last.pre.chainId)
    /\ state.chainId = Some(MAX_SAFE_CHAIN_ID)

\* C12 as claimed: every address stored in accounts is in checksummed form
\* in every reachable state, whatever skipValidation was.
C12_AccountsAlwaysChecksummed == AccountsChecksummed(state.accounts)

\* C12 as amended: startActivation, update with skipValidation false,
\* resetState and cancel each keep every stored address in checksummed form,
\* whatever casing the caller supplied, so that it is in every state reached
\* by those calls alone; an update with skipValidation true stores the
\* addresses as given.
C12_ValidatedCallsKeepAccountsChecksummed ==
    (AccountsChecksummed(last.pre.accounts) /\ ~SkippedValidation) =>
        AccountsChecksummed(state.accounts)

C12_Witness ==
    /\ Updated
    /\ ~last.skip
    /\ ~IsDefined(last.pre.accounts)
    /\ state.accounts = Some(<<Address("a", "checksum"), Address("b", "checksum")>>)

\* C17: resetState leaves the default state, from any state and so also when
\* called twice in a row, and a cancel function of an attempt begun before a
\* resetState changes nothing when invoked after it.
C17_ResetStateGivesDefault ==
    /\ last.op = "resetState" =>
           /\ state.chainId = Undefined
           /\ state.accounts = Undefined
           /\ state.accountIndex = Undefined
           /\ state.activating = FALSE
           /\ state.addingChain = Undefined
           /\ state.switchingChain = Undefined
           /\ state.watchingAsset = Undefined
    /\ (Cancelled /\ "resetState" \in attempts[last.idx].since) => state = last.pre

C17_Witness ==
    /\ last.op = "resetState"
    /\ last.pre.activating
    /\ IsDefined(last.pre.accountIndex)
    /\ IsDefined(last.pre.watchingAsset)
    /\ state = DEFAULT_STATE

\* the last call was one that increments the counter in the code
Incremented ==
    \/ last.op \in {"startActivation", "resetState"}
    \/ last.op = "update" /\ ~last.threw

\* C18: nullifier never decreases, it is greater after every startActivation,
\* successful update and resetState than before, and the value a
\* startActivation captures is the counter's value after its increment.
C18_NullifierGrows ==
    /\ nullifier >= last.nullifier
    /\ Incremented => nullifier > last.nullifier
    /\ last.op = "startActivation" =>
           /\ last.idx \in DOMAIN attempts
           /\ attempts[last.idx].cached = nullifier

C18_Witness ==
    /\ last.op = "startActivation"
    /\ nullifier = 3
    /\ attempts[last.idx].cached = 3
    /\ Len(attempts) = 2
    /\ attempts[1].cached = 1

----------------------------------------------------------------------------
(* update observed with its argument.  The store is brought to any state   *)
(* it can reach by calls that are not observed; then one call is observed, *)
(* with the state it found and the patch it was given, and an observed     *)
(* update that returned may be made once more with the same patch object.  *)

\* chain ids that are negative or not integers: -1, 1.5 and 0.5
ChainIdProbes == {Neg(0, 1), Half(0, 1), Half(0, 0)}

ProbeUpdates == {[EmptyUpdate EXCEPT !.chainId = Some(n)] : n \in ChainIdProbes}

ObservedUpdates == StateUpdates \cup ProbeUpdates

Unobserved ==
    [op |-> "unobserved", idx |-> 0, threw |-> FALSE, skip |-> FALSE,
     pre |-> DEFAULT_STATE, nullifier |-> 0]

Observed(op, threw, skip, stateUpdate, again) ==
    [op |-> op, idx |-> 0, threw |-> threw, skip |-> skip, pre |-> state,
     nullifier |-> nullifier, stateUpdate |-> stateUpdate, again |-> again,
     paired |-> FALSE]

\* the second of two observed updates: first is the patch of the first and
\* origin the state the first found
ObservedSecond(threw, stateUpdate, first, origin) ==
    [op |-> "update", idx |-> 0, threw |-> threw, skip |-> FALSE, pre |-> state,
     nullifier |-> nullifier, stateUpdate |-> stateUpdate, again |-> FALSE,
     paired |-> TRUE, first |-> first, origin |-> origin]

\* a patch of a valid chainId and nothing else, as the connect and
\* chainChanged listeners report
ChainIdUpdates ==
    {[EmptyUpdate EXCEPT !.chainId = Some(n)] :
         n \in {m \in ChainIdInputs : validateChainId(m)}}

\* a patch of valid accounts, not empty, and nothing else, as the
\* accountsChanged listener reports
AccountsUpdates ==
    {[EmptyUpdate EXCEPT !.accounts = Some(l)] :
         l \in {k \in AccountsInputs :
                   Len(k) > 0 /\ \A i \in 1..Len(k) : IsAddress(k[i])}}

\* a call has been observed
Watched == last.op \notin {"init", "unobserved"}

startActivationCall(observed) ==
    /\ ~Watched
    /\ nullifier < MaxNullifier
    /\ nullifier' = increment(nullifier)
    /\ state' = startActivationState(state)
    /\ UNCHANGED attempts
    /\ UNCHANGED outside
    /\ last' = IF observed
               THEN Observed("startActivation", FALSE, FALSE, EmptyUpdate, FALSE)
               ELSE Unobserved

\* update's effect on the store and the counter
updateEffect(stateUpdate, skipValidation) ==
    IF updateThrows(stateUpdate, skipValidation)
    THEN state' = thrownState(state, stateUpdate) /\ nullifier' = thrownNullifier(nullifier)
    ELSE applyUpdate(stateUpdate, skipValidation)

updateCall(stateUpdate, skipValidation, observed) ==
    /\ ~Watched
    /\ updateEffect(stateUpdate, skipValidation)
    /\ UNCHANGED attempts
    /\ UNCHANGED outside
    /\ last' = IF observed
               THEN Observed("update", updateThrows(stateUpdate, skipValidation),
                             skipValidation, stateUpdate, FALSE)
               ELSE Unobserved

resetStateCall(observed) ==
    /\ ~Watched
    /\ nullifier < MaxNullifier
    /\ nullifier' = increment(nullifier)
    /\ state' = resetStateState(state)
    /\ UNCHANGED attempts
    /\ UNCHANGED outside
    /\ last' = IF observed
               THEN Observed("resetState", FALSE, FALSE, EmptyUpdate, FALSE)
               ELSE Unobserved

\* the observed update called again with the object the first call was given,
\* whose accounts the first call has rewritten
updateAgain ==
    /\ last.op = "update"
    /\ ~last.threw
    /\ ~last.again
    /\ LET stateUpdate == validated(last.stateUpdate, last.skip)
       IN /\ updateEffect(stateUpdate, last.skip)
          /\ UNCHANGED outside
          /\ last' = Observed("update", updateThrows(stateUpdate, last.skip),
                              last.skip, stateUpdate, TRUE)
    /\ UNCHANGED attempts

\* an observed update of the chainId alone followed by one of the accounts
\* alone, or the other way round
updateOther(stateUpdate) ==
    /\ last.op = "update"
    /\ ~last.threw
    /\ ~last.skip
    /\ ~last.again
    /\ ~last.paired
    /\ IF last.stateUpdate \in ChainIdUpdates THEN stateUpdate \in AccountsUpdates
       ELSE IF last.stateUpdate \in AccountsUpdates THEN stateUpdate \in ChainIdUpdates
       ELSE FALSE
    /\ updateEffect(stateUpdate, FALSE)
    /\ UNCHANGED attempts
    /\ UNCHANGED outside
    /\ last' = ObservedSecond(updateThrows(stateUpdate, FALSE), stateUpdate,
                              last.stateUpdate, last.pre)

NextUpdate ==
    \/ \E stateUpdate \in ChainIdUpdates \cup AccountsUpdates : updateOther(stateUpdate)
    \/ \E observed \in BOOLEAN : startActivationCall(observed)
    \/ \E stateUpdate \in ObservedUpdates, skipValidation \in BOOLEAN,
          observed \in BOOLEAN : updateCall(stateUpdate, skipValidation, observed)
    \/ \E observed \in BOOLEAN : resetStateCall(observed)
    \/ updateAgain

SpecUpdate == Init /\ [][NextUpdate]_vars

----------------------------------------------------------------------------
(* Properties of update and its argument, checked under SpecUpdate *)

\* absent, or a list whose every address getAddress accepts
AccountsAccepted(accounts) ==
    IsDefined(accounts) =>
        \A i \in 1..Len(accounts.v) : accounts.v[i].form \in {"lower", "upper", "checksum"}

\* the observed call was update with validation on and a chainId in its patch
ValidatedChainId ==
    /\ last.op = "update"
    /\ ~last.skip
    /\ IsDefined(last.stateUpdate.chainId)

\* C13: a validated update whose patch has chainId c throws when c is 0,
\* negative, not an integer or above 4503599627370476, and, its accounts being
\* acceptable or absent, succeeds and stores c when c is an integer from 1 to
\* 4503599627370476.
C13_ChainIdBound ==
    ValidatedChainId =>
        /\ ~ChainIdInBounds(last.stateUpdate.chainId) => last.threw
        /\ (ChainIdInBounds(last.stateUpdate.chainId)
            /\ AccountsAccepted(last.stateUpdate.accounts)) =>
               /\ ~last.threw
               /\ state.chainId = last.stateUpdate.chainId

C13_Witness ==
    /\ ValidatedChainId
    /\ last.stateUpdate.chainId = Some(MAX_SAFE_CHAIN_ID)
    /\ ~last.threw
    /\ state.chainId = Some(MAX_SAFE_CHAIN_ID)
    /\ last.pre.chainId # state.chainId

\* C14: an update that throws a validation error leaves every field of the
\* state as the call found it, the fields its patch named with valid values
\* included.
C14_ValidationFailureIsAtomic ==
    (last.op = "update" /\ last.threw) => state = last.pre

C14_Witness ==
    /\ last.op = "update"
    /\ last.threw
    /\ last.stateUpdate.chainId = Some(Num(0, 1))
    /\ IsDefined(last.stateUpdate.accounts)
    /\ last.stateUpdate.accounts.v[1].form = "checksum"
    /\ \A name \in OptionalNames : IsDefined(last.stateUpdate[name])
    /\ last.pre.chainId # last.stateUpdate.chainId
    /\ \A name \in OptionalNames : ~IsDefined(last.pre[name])

\* C15: after a successful update each of accountIndex, addingChain,
\* switchingChain and watchingAsset has the patch's value if the patch names
\* the property, undefined included, and the value it had if the patch does not.
C15_NamedOptionalsAreWritten ==
    Updated =>
        \A name \in OptionalNames :
            state[name] = IF last.stateUpdate[name].tag = "absent"
                          THEN last.pre[name]
                          ELSE last.stateUpdate[name]

C15_Witness ==
    /\ Updated
    /\ last.stateUpdate.accountIndex = Undefined
    /\ IsDefined(last.pre.accountIndex)
    /\ ~IsDefined(state.accountIndex)
    /\ last.stateUpdate.addingChain.tag = "absent"
    /\ IsDefined(last.pre.addingChain)
    /\ state.addingChain = last.pre.addingChain

\* the value update stores for the accounts its patch provides: each address
\* in checksummed form when the call validates, the list as given when not
StoredAccounts(accounts, skipValidation) ==
    IF skipValidation
    THEN accounts
    ELSE Some([i \in 1..Len(accounts.v) |->
                   [hex |-> accounts.v[i].hex, form |-> "checksum"]])

\* C16: a successful update stores the patch's chainId and accounts where the
\* patch provides them and keeps the existing ones where it does not; a
\* defined chainId or accounts is undefined after a call only if the call was
\* startActivation or resetState.
C16_ConnectionFieldsKept ==
    /\ Updated =>
           /\ state.chainId = IF IsDefined(last.stateUpdate.chainId)
                              THEN last.stateUpdate.chainId
                              ELSE last.pre.chainId
           /\ state.accounts = IF IsDefined(last.stateUpdate.accounts)
                               THEN StoredAccounts(last.stateUpdate.accounts, last.skip)
                               ELSE last.pre.accounts
    /\ (IsDefined(last.pre.chainId) /\ ~IsDefined(state.chainId)) =>
           last.op \in {"startActivation", "resetState"}
    /\ (IsDefined(last.pre.accounts) /\ ~IsDefined(state.accounts)) =>
           last.op \in {"startActivation", "resetState"}

C16_Witness ==
    /\ Updated
    /\ ~IsDefined(last.stateUpdate.chainId)
    /\ IsDefined(last.pre.chainId)
    /\ state.chainId = last.pre.chainId
    /\ IsDefined(last.stateUpdate.accounts)
    /\ IsDefined(last.pre.accounts)
    /\ state.accounts # last.pre.accounts
    /\ state.accounts # last.stateUpdate.accounts

\* C19: a successful update made again with the same patch leaves the state
\* the first call left.
C19_UpdateIsIdempotent ==
    (Updated /\ last.again) => state = last.pre

C19_Witness ==
    /\ Updated
    /\ last.again
    /\ ~last.skip
    /\ NonEmpty(last.stateUpdate.accounts)
    /\ IsDefined(last.stateUpdate.chainId)
    /\ IsDefined(state.addingChain)
    /\ state = last.pre
    /\ nullifier = last.nullifier + 1

\* C20: update with skipValidation set never throws and stores the chainId
\* and the accounts of its patch as they were given.
C20_SkipValidationStoresAsGiven ==
    (last.op = "update" /\ last.skip) =>
        /\ ~last.threw
        /\ IsDefined(last.stateUpdate.chainId) =>
               state.chainId = last.stateUpdate.chainId
        /\ IsDefined(last.stateUpdate.accounts) =>
               state.accounts = last.stateUpdate.accounts

C20_Witness ==
    /\ last.op = "update"
    /\ last.skip
    /\ ~last.again
    /\ last.stateUpdate.chainId = Some(Num(0, 0))
    /\ IsDefined(last.stateUpdate.accounts)
    /\ \E i \in 1..Len(last.stateUpdate.accounts.v) :
           last.stateUpdate.accounts.v[i].form = "badchecksum"
    /\ state.chainId = last.stateUpdate.chainId
    /\ state.accounts = last.stateUpdate.accounts

----------------------------------------------------------------------------
(* Return values and the cancel function, checked under Spec *)

\* C21: the value a successful update, resetState or a cancel function
\* returns, stale or not, is the state getState reads right after the call.
C21_ReturnsCurrentSnapshot ==
    (\/ Updated
     \/ last.op = "resetState"
     \/ Cancelled) => last.returned = getStateReturn(state)

C21_Witness ==
    /\ CancelledStale
    /\ IsDefined(last.returned.chainId)
    /\ last.returned.activating
    /\ last.returned = state

----------------------------------------------------------------------------
(* The hooks: what getStateHooks and getDerivedHooks read from the store *)

\* useChainId's selector
useChainId(storeState) == storeState.chainId

\* useAccounts's selector: accounts ?? []
useAccounts(storeState) == coalesce(storeState.accounts, Some(<<>>))

\* useIsActivating's selector
useIsActivating(storeState) == storeState.activating

\* Boolean(chainId && accounts && !activating)
computeIsActive(chainId, accounts, activating) ==
    TruthyNumber(chainId) /\ TruthyArray(accounts) /\ ~activating

useIsActive(storeState) ==
    computeIsActive(useChainId(storeState), useAccounts(storeState),
                    useIsActivating(storeState))

\* C22 as claimed: useIsActive is true exactly when chainId is defined,
\* accounts is defined and not empty, and activating is false.
C22_IsActiveExactly ==
    useIsActive(state) <=>
        (IsDefined(state.chainId) /\ NonEmpty(state.accounts) /\ ~state.activating)

----------------------------------------------------------------------------
(* getSelectedConnector: the hooks of one connector among several *)

Connectors == {"metaMask", "bscWallet", "phantom"}

\* the remaining state hooks' selectors
useAccountIndex(storeState) == storeState.accountIndex

useAddingChain(storeState) == storeState.addingChain

useSwitchingChain(storeState) == storeState.switchingChain

useWatchingAsset(storeState) == storeState.watchingAsset

\* accounts?.length && (accountIndex || accountIndex === 0) && accountIndex >= 0
\*     ? accounts?.[accountIndex] : undefined
useAccount(storeState) ==
    LET accounts == useAccounts(storeState)
        accountIndex == useAccountIndex(storeState)
    IN IF /\ Len(accounts.v) > 0
          /\ IsDefined(accountIndex)
          /\ ~accountIndex.v.neg
          /\ IsInteger(accountIndex.v)
          /\ accountIndex.v.hi = 0
          /\ accountIndex.v.lo < Len(accounts.v)
       THEN Some(accounts.v[accountIndex.v.lo + 1])
       ELSE Undefined

\* the functions getSelectedConnector returns
StateSelectors ==
    {"useSelectedChainId", "useSelectedAccounts", "useSelectedAccountIndex",
     "useSelectedIsActivating", "useSelectedAccount", "useSelectedIsActive",
     "useSelectedAddingChain", "useSelectedSwitchingChain", "useSelectedWatchingAsset"}

AugmentedSelectors ==
    {"useSelectedProvider", "useSelectedENSNames", "useSelectedENSName",
     "useSelectedENSAvatars", "useSelectedENSAvatar"}

Selectors == {"useSelectedStore"} \cup StateSelectors \cup AugmentedSelectors

\* what the hook behind a useSelected function returns for one initialized
\* connector; a provider, ENS names and avatars are known by the connector
\* whose hook produced them
hookValue(name, initialized) ==
    CASE name = "useSelectedChainId" -> useChainId(initialized.storeState)
      [] name = "useSelectedAccounts" -> useAccounts(initialized.storeState)
      [] name = "useSelectedAccountIndex" -> useAccountIndex(initialized.storeState)
      [] name = "useSelectedIsActivating" -> useIsActivating(initialized.storeState)
      [] name = "useSelectedAccount" -> useAccount(initialized.storeState)
      [] name = "useSelectedIsActive" -> useIsActive(initialized.storeState)
      [] name = "useSelectedAddingChain" -> useAddingChain(initialized.storeState)
      [] name = "useSelectedSwitchingChain" -> useSwitchingChain(initialized.storeState)
      [] name = "useSelectedWatchingAsset" -> useWatchingAsset(initialized.storeState)
      [] OTHER -> [hook |-> name, connector |-> initialized.connector]

\* initializedConnectors.findIndex(([initializedConnector]) =>
\*     connector === initializedConnector), counted from 0
findIndex(initializeds, connector) ==
    IF \E i \in DOMAIN initializeds : initializeds[i].connector = connector
    THEN (CHOOSE i \in DOMAIN initializeds :
              /\ initializeds[i].connector = connector
              /\ \A j \in 1..(i - 1) : initializeds[j].connector # connector) - 1
    ELSE -1

Thrown(error) == [threw |-> TRUE, error |-> error]

Returned(value) == [threw |-> FALSE, value |-> value]

\* getIndex falling back to the first connector, as usePriorityConnector does
getIndexFirstWhenMissing(initializeds, connector) ==
    LET index == findIndex(initializeds, connector)
    IN Returned(IF index = -1 THEN 0 ELSE index)

getIndex(initializeds, connector) ==
    LET index == findIndex(initializeds, connector)
    IN IF index = -1 THEN Thrown("Connector not found") ELSE Returned(index)

\* a useSelected function called with a connector
useSelected(name, initializeds, connector) ==
    LET index == getIndex(initializeds, connector)
    IN IF index.threw THEN index
       ELSE IF name = "useSelectedStore"
       THEN IF initializeds[index.value + 1].store
            THEN Returned([store |-> initializeds[index.value + 1].connector])
            ELSE Thrown("Stores not passed")
       ELSE Returned(hookValue(name, initializeds[index.value + 1]))

\* the states a connector's store is taken through
connectedUpdate ==
    [EmptyUpdate EXCEPT !.chainId = Some(Num(0, 1)),
                        !.accounts = Some(<<Address("a", "checksum")>>),
                        !.accountIndex = Some(Num(0, 0))]

\* the arguments of getSelectedConnector: one to MaxConnectors connectors,
\* all with their stores or all without
InitSelected ==
    /\ state = DEFAULT_STATE
    /\ nullifier = 0
    /\ attempts = <<>>
    /\ last = [op |-> "init"]
    /\ BinanceChain = FALSE
    /\ provider = Undefined
    /\ DynamicProvider = Undefined
    /\ importing = <<>>
    /\ \E n \in 1..MaxConnectors, store \in BOOLEAN :
           \E connectors \in [1..n -> Connectors] :
               initializedConnectors =
                   [i \in 1..n |-> [connector |-> connectors[i],
                                    storeState |-> DEFAULT_STATE,
                                    store |-> store]]

selectedFrame == UNCHANGED <<state, nullifier, attempts, BinanceChain, provider,
                             DynamicProvider, importing>>

\* connector i starts an activation
connectorStartsActivation(i) ==
    /\ initializedConnectors' =
           [initializedConnectors EXCEPT ![i].storeState = startActivationState(@)]
    /\ last' = [op |-> "startActivation"]
    /\ selectedFrame

\* connector i reports its chain and its accounts
connectorUpdates(i) ==
    /\ initializedConnectors' =
           [initializedConnectors EXCEPT
                ![i].storeState = updateState(@, validated(connectedUpdate, FALSE))]
    /\ last' = [op |-> "update"]
    /\ selectedFrame

\* connector i resets its state
connectorResets(i) ==
    /\ initializedConnectors' =
           [initializedConnectors EXCEPT ![i].storeState = resetStateState(@)]
    /\ last' = [op |-> "resetState"]
    /\ selectedFrame

\* a component calls one of the useSelected functions
select(name, connector) ==
    /\ last' = [op |-> name, connector |-> connector,
                result |-> useSelected(name, initializedConnectors, connector)]
    /\ UNCHANGED initializedConnectors
    /\ selectedFrame

NextSelected ==
    \/ \E i \in DOMAIN initializedConnectors : connectorStartsActivation(i)
    \/ \E i \in DOMAIN initializedConnectors : connectorUpdates(i)
    \/ \E i \in DOMAIN initializedConnectors : connectorResets(i)
    \/ \E name \in Selectors, connector \in Connectors : select(name, connector)

SpecSelected == InitSelected /\ [][NextSelected]_vars

\* the connector is one of those given to getSelectedConnector
Initialized(connector) ==
    \E i \in DOMAIN initializedConnectors :
        initializedConnectors[i].connector = connector

\* C23: every useSelected function called with a connector that is not
\* among the initialized connectors throws 'Connector not found' and so
\* returns nothing.
C23_UnknownConnectorNotFound ==
    (last.op \in Selectors /\ ~Initialized(last.connector)) =>
        last.result = Thrown("Connector not found")

C23_Witness ==
    /\ last.op = "useSelectedIsActive"
    /\ ~Initialized(last.connector)
    /\ last.result = Thrown("Connector not found")
    /\ Len(initializedConnectors) = 2
    /\ useIsActive(initializedConnectors[1].storeState)

----------------------------------------------------------------------------
(* Failed attempts of the connector, checked under SpecEIP1193 *)

\* the last step was a call of update that threw, made by the then handler
\* or by a listener
UpdateThrew ==
    last.op \in {"then", "connect", "chainChanged", "accountsChanged"} /\ last.threw

\* the last step was the catch handler of an attempt, run right after the
\* update of its then handler threw
CaughtValidationError == Caught /\ last.afterThrow

\* nothing but updates that threw has run since the attempt just handled began
OnlyThrown == attempts[last.idx].since = {}

\* C24: an update that throws leaves the counter as it was, and the cancel
\* function of an attempt followed only by updates that threw finds its
\* cached counter current and sets activating to false.
C24_ThrownUpdateKeepsCancelCurrent ==
    /\ UpdateThrew => nullifier = last.nullifier
    /\ (CaughtValidationError /\ OnlyThrown) =>
           /\ nullifier = attempts[last.idx].cached
           /\ ~state.activating

C24_Witness ==
    /\ CaughtValidationError
    /\ OnlyThrown
    /\ attempts[last.idx].kind = "activate"
    /\ last.pre.activating
    /\ ~state.activating

----------------------------------------------------------------------------
(* The cancel function and the counter, checked under Spec *)

\* the last call was a cancel function whose cached counter was current
TookEffect == Cancelled /\ attempts[last.idx].cached = last.nullifier

\* C25: a cancel function that takes effect finds the default state, with
\* activating true or false, and leaves exactly the default state.
C25_EffectiveCancelLeavesDefault ==
    TookEffect =>
        /\ last.pre \in {DEFAULT_STATE, [DEFAULT_STATE EXCEPT !.activating = TRUE]}
        /\ state = DEFAULT_STATE

C25_Witness ==
    /\ TookEffect
    /\ last.pre = [DEFAULT_STATE EXCEPT !.activating = TRUE]
    /\ state = DEFAULT_STATE
    /\ nullifier > 1


\* C26: a cancel function and getState leave the counter as it was, and a
\* cancel function called again right after itself leaves the state the
\* first call left.
C26_CancelReadsOnlyAndIsIdempotent ==
    /\ last.op \in {"cancel", "getState"} => nullifier = last.nullifier
    /\ (Cancelled /\ last.again) => state = last.pre

C26_Witness ==
    /\ TookEffect
    /\ last.again
    /\ state = DEFAULT_STATE
    /\ Len(attempts) = 2
    /\ nullifier = last.nullifier

----------------------------------------------------------------------------
(* Two updates in a row, checked under SpecUpdate *)

\* the last call was the second of an update of the chainId alone and an
\* update of the accounts alone, in either order
Paired == last.op = "update" /\ last.paired

\* the patch that has the chainId of one patch and the accounts of the other
both(first, second) ==
    [EmptyUpdate EXCEPT
         !.chainId = IF IsDefined(first.chainId) THEN first.chainId ELSE second.chainId,
         !.accounts = IF IsDefined(first.accounts) THEN first.accounts ELSE second.accounts]

\* C27: after update({chainId: c}) and update({accounts: a}) in either
\* order, for a valid c and a valid a that is not empty, the state is the
\* one the single update({chainId: c, accounts: a}) gives from the state the
\* first of the two found, activating included.
C27_DisjointUpdatesCommute ==
    Paired =>
        /\ ~last.threw
        /\ state = updateState(last.origin,
                               validated(both(last.first, last.stateUpdate), FALSE))

C27_Witness ==
    /\ Paired
    /\ IsDefined(last.first.accounts)
    /\ IsDefined(last.stateUpdate.chainId)
    /\ last.origin.activating
    /\ last.pre.activating
    /\ ~state.activating
    /\ IsDefined(last.origin.watchingAsset)

----------------------------------------------------------------------------
(* Rejected attempts of the connector, checked under SpecEIP1193 *)

\* the last step was a call of activate or connectEagerly
Began == last.op \in {"activate", "connectEagerly"} /\ last.idx \in DOMAIN attempts

\* startActivation comes before the requests, and the catch handler calls the
\* cancel function before it rethrows the error it was given, so that the
\* state is the default state when the returned promise rejects, if no
\* startActivation, successful update or resetState ran since the attempt began
CancelledBeforeRejection ==
    /\ Began =>
           /\ state = [DEFAULT_STATE EXCEPT !.activating = TRUE]
           /\ attempts[last.idx].phase = "pending"
           /\ attempts[last.idx].cached = nullifier
    /\ Caught =>
           /\ last.rejection = chainError(attempts[last.idx])
           /\ state = cancelActivationState(last.pre, last.nullifier,
                                            attempts[last.idx].cached)
           /\ nullifier = last.nullifier
           /\ attempts[last.idx].since = {} => state = DEFAULT_STATE

\* C28 as claimed: as above, and an attempt one of whose requests has
\* rejected is never fulfilled by its then handler.
C28_AnyRejectedRequestRejects ==
    /\ []CancelledBeforeRejection
    /\ [][(last'.op = "then" /\ ~last'.threw) =>
              attempts[last'.idx].phase # "fallback"]_vars

\* C28 as amended: as above, for the attempts whose Promise.all rejects or
\* whose update throws; activate's eth_requestAccounts rejecting alone is
\* followed by eth_accounts.
C28_RejectionFollowsCancellation == CancelledBeforeRejection

C28_Witness ==
    /\ Caught
    /\ attempts[last.idx].since = {}
    /\ attempts[last.idx].kind = "connectEagerly"
    /\ ~last.afterThrow
    /\ last.pre.activating
    /\ state = DEFAULT_STATE
    /\ last.rejection = chainError(attempts[last.idx])

----------------------------------------------------------------------------
(* The BscWallet connector *)

\* what the wallet answers to eth_chainId, after parseChainId, and sends with
\* connect and chainChanged
BscChainIds == {Num(0, 0), Num(0, 56)}

\* what the wallet answers to eth_requestAccounts and sends with accountsChanged
BscAccounts == {<<>>, <<Address("a", "lower")>>}

\* isomorphicInitialize: this.provider afterwards
isomorphicInitialize(thisProvider, windowBinanceChain) ==
    IF IsDefined(thisProvider) THEN thisProvider
    ELSE IF windowBinanceChain THEN Some("BinanceChain")
    ELSE Undefined

\* a step of a BscWallet promise chain, with what the returned promise has
\* settled to, if it has
Settling(call, outcome) ==
    [op |-> call.op, idx |-> call.idx, threw |-> call.threw,
     nullifier |-> call.nullifier, outcome |-> outcome]

Pending == [threw |-> FALSE, pending |-> TRUE]

\* the catch handler of connectEagerly ending in throw error, as activate's does
connectEagerlyCaughtRethrown(cancelled, error) == Thrown(error)

\* the catch handler of connectEagerly: return cancelActivation()
connectEagerlyCaught(cancelled, error) == Returned(cancelled)

\* the BinanceChain extension injects window.BinanceChain
walletInjected ==
    /\ ~BinanceChain
    /\ BinanceChain' = TRUE
    /\ last' = Call("walletInjected", 0, FALSE, FALSE)
    /\ UNCHANGED <<state, nullifier, attempts, provider, initializedConnectors,
                   DynamicProvider, importing>>

bscFrame == UNCHANGED <<BinanceChain, initializedConnectors, DynamicProvider, importing>>

\* connectEagerly with no provider: return this.actions.getState()
bscConnectEagerlyNoProvider ==
    /\ ~IsDefined(isomorphicInitialize(provider, BinanceChain))
    /\ provider' = isomorphicInitialize(provider, BinanceChain)
    /\ UNCHANGED <<state, nullifier, attempts>>
    /\ last' = Settling(Call("connectEagerly", 0, FALSE, FALSE),
                        Returned(getStateReturn(state)))
    /\ bscFrame

\* connectEagerly with a provider: startActivation, then the two requests
bscConnectEagerly ==
    /\ IsDefined(isomorphicInitialize(provider, BinanceChain))
    /\ provider' = isomorphicInitialize(provider, BinanceChain)
    /\ beginActivation("connectEagerly")
    /\ last' = Settling(Call("connectEagerly", Len(attempts'), FALSE, FALSE), Pending)
    /\ bscFrame

\* Promise.all rejects: one of the requests of attempt i has failed
bscRequestsRejected(i) ==
    /\ attempts[i].phase = "pending"
    /\ attempts' = settle(attempts, i, "rejected")
    /\ last' = Settling(Call("requestsRejected", i, FALSE, FALSE), Pending)
    /\ UNCHANGED <<state, nullifier, provider>>
    /\ bscFrame

\* the patch BscWallet reports for the accounts the wallet gave
bscUpdate(chainId, accounts) ==
    [EmptyUpdate EXCEPT !.chainId = chainId,
                        !.accounts = Some(accounts),
                        !.accountIndex = IF Len(accounts) > 0
                                         THEN Some(Num(0, 0)) ELSE Undefined]

\* the then handler of connectEagerly: update if accounts?.length, else
\* throw new Error('No accounts returned')
bscThenHandler(i, chainId, accounts) ==
    LET stateUpdate == bscUpdate(Some(chainId), accounts)
        throws == Len(accounts) = 0 \/ updateThrows(stateUpdate, FALSE)
    IN /\ attempts[i].phase = "pending"
       /\ attempts[i].kind = "connectEagerly"
       /\ IF throws
          THEN /\ state' = thrownState(state, stateUpdate)
               /\ nullifier' = thrownNullifier(nullifier)
               /\ attempts' = settle(attempts, i, "rejected")
               /\ last' = Settling(Call("then", i, TRUE, FALSE), Pending)
          ELSE /\ applyUpdate(stateUpdate, FALSE)
               /\ attempts' = settle(mark(attempts, "update"), i, "settled")
               /\ last' = Settling(Call("then", i, FALSE, FALSE),
                                   Returned(updateReturn(state, state')))
       /\ UNCHANGED provider
       /\ bscFrame

\* the catch handler of connectEagerly
bscCatchHandler(i) ==
    /\ attempts[i].phase = "rejected"
    /\ attempts[i].kind = "connectEagerly"
    /\ cancelActivation(i)
    /\ attempts' = settle(attempts, i, "settled")
    /\ last' = Settling(Call("catch", i, FALSE, FALSE),
                        connectEagerlyCaught(cancelActivationReturn(state, state'),
                                             chainError(attempts[i])))
    /\ UNCHANGED provider
    /\ bscFrame

\* activate with no provider: throw new NoBscProviderError()
bscActivateNoProvider ==
    /\ ~IsDefined(isomorphicInitialize(provider, BinanceChain))
    /\ provider' = isomorphicInitialize(provider, BinanceChain)
    /\ UNCHANGED <<state, nullifier, attempts>>
    /\ last' = Settling(Call("activate", 0, TRUE, FALSE), Thrown("NoBscProviderError"))
    /\ bscFrame

\* activate with a provider: startActivation unless the provider says it is
\* connected, and then there is no cancel function; one such attempt is
\* followed at a time
bscActivate(isConnected) ==
    /\ IsDefined(isomorphicInitialize(provider, BinanceChain))
    /\ provider' = isomorphicInitialize(provider, BinanceChain)
    /\ IF isConnected
       THEN /\ hasRoom(attempts)
            /\ \A j \in DOMAIN attempts : attempts[j].kind # "activateConnected"
            /\ UNCHANGED <<state, nullifier>>
            /\ attempts' = Append(room(attempts),
                                  [cached |-> -1, since |-> {},
                                   kind |-> "activateConnected", phase |-> "pending"])
       ELSE beginActivation("activate")
    /\ last' = Settling(Call("activate", Len(attempts'), FALSE, FALSE), Pending)
    /\ bscFrame

\* the then handler of activate: update with whatever the wallet gave
bscActivateThenHandler(i, chainId, accounts) ==
    LET stateUpdate == bscUpdate(Some(chainId), accounts)
    IN /\ attempts[i].phase = "pending"
       /\ attempts[i].kind \in {"activate", "activateConnected"}
       /\ actionsUpdate(stateUpdate)
       /\ IF updateThrows(stateUpdate, FALSE)
          THEN /\ attempts' = settle(attempts, i, "rejected")
               /\ last' = Settling(Call("then", i, TRUE, FALSE), Pending)
          ELSE /\ attempts' = settle(mark(attempts, "update"), i, "settled")
               /\ last' = Settling(Call("then", i, FALSE, FALSE),
                                   Returned(updateReturn(state, state')))
       /\ UNCHANGED provider
       /\ bscFrame

\* the catch handler of activate: cancelActivation?.(); throw error
bscActivateCatchHandler(i) ==
    /\ attempts[i].phase = "rejected"
    /\ attempts[i].kind \in {"activate", "activateConnected"}
    /\ IF attempts[i].kind = "activateConnected"
       THEN UNCHANGED <<state, nullifier>>
       ELSE cancelActivation(i)
    /\ attempts' = settle(attempts, i, "settled")
    /\ last' = Settling(Call("catch", i, TRUE, FALSE), Thrown(rethrow(chainError(attempts[i]))))
    /\ UNCHANGED provider
    /\ bscFrame

\* a listener's call of this.actions.update(stateUpdate)
bscListenerUpdate(op, stateUpdate) ==
    /\ IsDefined(provider)
    /\ actionsUpdate(stateUpdate)
    /\ attempts' = marked(stateUpdate)
    /\ last' = Settling(Call(op, 0, updateThrows(stateUpdate, FALSE), FALSE), Pending)
    /\ UNCHANGED provider
    /\ bscFrame

\* a listener's call of this.actions.resetState()
bscListenerReset(op) ==
    /\ IsDefined(provider)
    /\ nullifier < MaxNullifier
    /\ nullifier' = increment(nullifier)
    /\ state' = resetStateState(state)
    /\ attempts' = mark(attempts, "resetState")
    /\ last' = Settling(Call(op, 0, FALSE, FALSE), Pending)
    /\ UNCHANGED provider
    /\ bscFrame

bscOnConnect(chainId) ==
    bscListenerUpdate("connect", [EmptyUpdate EXCEPT !.chainId = Some(chainId)])

bscOnDisconnect == bscListenerReset("disconnect")

bscOnChainChanged(chainId) ==
    bscListenerUpdate("chainChanged", [EmptyUpdate EXCEPT !.chainId = Some(chainId)])

\* accounts.length === 0 ? resetState() : update({ accounts, accountIndex })
bscOnAccountsChanged(accounts) ==
    IF Len(accounts) = 0
    THEN bscListenerReset("accountsChanged")
    ELSE bscListenerUpdate("accountsChanged", bscUpdate(Absent, accounts))

NextBscWallet ==
    \/ walletInjected
    \/ bscConnectEagerlyNoProvider
    \/ bscConnectEagerly
    \/ \E i \in DOMAIN attempts : bscRequestsRejected(i)
    \/ \E i \in DOMAIN attempts, chainId \in BscChainIds,
          accounts \in BscAccounts : bscThenHandler(i, chainId, accounts)
    \/ \E i \in DOMAIN attempts : bscCatchHandler(i)
    \/ bscActivateNoProvider
    \/ \E isConnected \in BOOLEAN : bscActivate(isConnected)
    \/ \E i \in DOMAIN attempts, chainId \in BscChainIds,
          accounts \in BscAccounts : bscActivateThenHandler(i, chainId, accounts)
    \/ \E i \in DOMAIN attempts : bscActivateCatchHandler(i)
    \/ \E chainId \in BscChainIds : bscOnConnect(chainId)
    \/ bscOnDisconnect
    \/ \E chainId \in BscChainIds : bscOnChainChanged(chainId)
    \/ \E accounts \in BscAccounts : bscOnAccountsChanged(accounts)

SpecBscWallet == Init /\ [][NextBscWallet]_vars

\* an attempt of BscWallet.connectEagerly
Eager(i) == i \in DOMAIN attempts /\ attempts[i].kind = "connectEagerly"

\* C29: BscWallet.connectEagerly never rejects: with no provider it returns
\* the state it found, which is still the store's, and leaves the counter
\* alone (no startActivation); after a rejected request or an answer without accounts
\* it resolves with what the cancel function returned, which has activating
\* false when no other state-mutating call came in between; and a fulfilled
\* update leaves activating false too
C29_ConnectEagerlyNeverRejects ==
    /\ (last.op = "connectEagerly" /\ last.idx = 0) =>
           /\ last.outcome = Returned(state)
           /\ nullifier = last.nullifier
    /\ (last.op = "catch" /\ Eager(last.idx)) =>
           /\ last.outcome = Returned(state)
           /\ attempts[last.idx].since = {} => ~state.activating
    /\ (last.op = "then" /\ Eager(last.idx) /\ ~last.threw) =>
           /\ last.outcome = Returned(state)
           /\ ~state.activating

\* connectEagerly has resolved with the cancel function's result after the
\* wallet answered with no accounts, with nothing else having touched the store
C29_Witness ==
    /\ last.op = "catch"
    /\ Eager(last.idx)
    /\ attempts[last.idx].since = {}
    /\ ~state.activating
    /\ last.outcome = Returned(state)

----------------------------------------------------------------------------
(* The deferred provider class: DynamicProvider and importProvider *)

Null == [tag |-> "null"]

Web3Provider == Some("Web3Provider")

\* importProvider's test: DynamicProvider === undefined
importProviderImports(dynamicProvider) == dynamicProvider = Undefined

\* useState(DynamicProvider !== undefined)
initiallyLoaded(dynamicProvider) == dynamicProvider # Undefined

\* a step of the hook layer, with how many times import() has been
\* evaluated and DynamicProvider assigned so far
Importing(op, idx, started, assigned) ==
    [op |-> op, idx |-> idx, started |-> started, assigned |-> assigned]

InitProvider ==
    /\ InitOutside
    /\ state = DEFAULT_STATE
    /\ nullifier = 0
    /\ attempts = <<>>
    /\ last = Importing("init", 0, 0, 0)

providerFrame == UNCHANGED <<state, nullifier, attempts, initializedConnectors,
                             BinanceChain, provider>>

\* a component renders useProvider for the first time
useProviderRenders ==
    /\ Len(importing) < MaxComponents
    /\ importing' = Append(importing, [loaded |-> initiallyLoaded(DynamicProvider),
                                       phase |-> "rendered", stale |-> FALSE])
    /\ last' = Importing("render", Len(importing'), last.started, last.assigned)
    /\ UNCHANGED DynamicProvider
    /\ providerFrame

\* the component's effect: if (loaded) return; importProvider().then(...)
useProviderEffect(i) ==
    /\ importing[i].phase = "rendered"
    /\ IF importing[i].loaded
       THEN /\ importing' = [importing EXCEPT ![i].phase = "done"]
            /\ last' = Importing("effect", i, last.started, last.assigned)
       ELSE IF importProviderImports(DynamicProvider)
       THEN /\ importing' = [importing EXCEPT ![i].phase = "importing"]
            /\ last' = Importing("effect", i, last.started + 1, last.assigned)
       ELSE /\ importing' = [importing EXCEPT ![i].phase = "imported"]
            /\ last' = Importing("effect", i, last.started, last.assigned)
    /\ UNCHANGED DynamicProvider
    /\ providerFrame

\* the import of call i is fulfilled: DynamicProvider = Web3Provider
importFulfilled(i) ==
    /\ importing[i].phase = "importing"
    /\ DynamicProvider # Null
    /\ DynamicProvider' = Web3Provider
    /\ importing' = [importing EXCEPT ![i].phase = "imported"]
    /\ last' = Importing("fulfilled", i, last.started, last.assigned + 1)
    /\ providerFrame

\* the import of call i is rejected: DynamicProvider = null
importRejected(i) ==
    /\ importing[i].phase = "importing"
    /\ DynamicProvider # Web3Provider
    /\ DynamicProvider' = Null
    /\ importing' = [importing EXCEPT ![i].phase = "imported"]
    /\ last' = Importing("rejected", i, last.started, last.assigned + 1)
    /\ providerFrame

\* importProvider().then(() => { if (stale) return; setLoaded(true) })
importProviderThen(i) ==
    /\ importing[i].phase = "imported"
    /\ importing' = [importing EXCEPT ![i].phase = "done",
                                      ![i].loaded = IF importing[i].stale THEN @ ELSE TRUE]
    /\ last' = Importing("then", i, last.started, last.assigned)
    /\ UNCHANGED DynamicProvider
    /\ providerFrame

\* the effect's cleanup: stale = true
useProviderCleanup(i) ==
    /\ importing[i].phase \in {"importing", "imported"}
    /\ ~importing[i].stale
    /\ importing' = [importing EXCEPT ![i].stale = TRUE]
    /\ last' = Importing("cleanup", i, last.started, last.assigned)
    /\ UNCHANGED DynamicProvider
    /\ providerFrame

NextProvider ==
    \/ useProviderRenders
    \/ \E i \in DOMAIN importing : useProviderEffect(i)
    \/ \E i \in DOMAIN importing : importFulfilled(i)
    \/ \E i \in DOMAIN importing : importRejected(i)
    \/ \E i \in DOMAIN importing : importProviderThen(i)
    \/ \E i \in DOMAIN importing : useProviderCleanup(i)

SpecProvider == InitProvider /\ [][NextProvider]_vars

\* C30: the deferred provider class is initialized at most once: over any
\* number of concurrent importProvider calls the import is started at most
\* once and DynamicProvider is assigned at most once
C30_InitializedAtMostOnce ==
    /\ last.started <= 1
    /\ last.assigned <= 1

====
